---- MODULE Spec2Model ----
(***************************************************************************)
(* A model of the TypeScript CHIP-8 interpreter: the register file         *)
(* (src/src/registers.ts), the instruction handlers and dispatch           *)
(* (src/src/intructions.ts), the display state (src/src/display.ts), the   *)
(* keypad (src/src/io.ts) and the driver (src/src/main.ts).                *)
(*                                                                         *)
(* JavaScript numbers.  The registers are properties of a plain object,    *)
(* so they hold JavaScript numbers, not bytes: `registers[reg(c)] /= 2`    *)
(* stores 0.5 when Vx is 1.  A number is therefore modelled in fixed       *)
(* point: the TLA+ integer v stands for the JavaScript number v / Scale,   *)
(* where Scale = 2^FracBits.  Num(k) is the JavaScript integer k.  A step  *)
(* whose result needs more than FracBits binary fraction digits is         *)
(* outside the model (Representable).  Opcodes, nibbles and memory bytes   *)
(* are always integers and are kept as plain TLA+ integers.                *)
(***************************************************************************)
EXTENDS Integers, Sequences, FiniteSets, TLC

VARIABLES
    registers,     \* registers.ts _registers: v0..vF, addressIndex, delayTimer, soundTimer, programCounter
    stack,         \* registers.ts stack: sequence of return addresses, top last
    displayState,  \* display.ts displayState: the set of keys pos with displayState[pos] === true
    oldState,      \* display.ts oldState: the set of indices with oldState[i] === true
    canvas,        \* the tiles of the canvas painted in the "on" colour
    rom,           \* the bytes of the program image in memory from ROM_START on
    keys,          \* io.ts keys: key id -> pressed
    timers,        \* the browser's active intervals: id -> callback
    cpu, dt, st,   \* main.ts interval ids (0 stands for undefined)
    pending,       \* file reads in flight: images whose arrayBuffer() promise is unresolved
    steps,         \* history: mainLoop calls since the last reset
    last,          \* history: the opcode, address and pre-state of the last mainLoop call,
                   \* or the property and value of the last direct register write
    callSites      \* history: the addresses of the CALLs that have not returned, top last

vars == <<registers, stack, displayState, oldState, canvas, rom, keys, timers,
          cpu, dt, st, pending, steps, last, callSites>>

----------------------------------------------------------------------------
(* Bounds of the model *)

\* binary fraction digits kept for a JavaScript number
FracBits == 1
\* mainLoop calls modelled after a reset
MaxSteps == 6
\* file reads that may be in flight at once
MaxPending == 1
\* mainLoop calls modelled for the program that calls itself
MaxCallSteps == 18

----------------------------------------------------------------------------
(* JavaScript numbers and bit operations *)

Scale == 2 ^ FracBits

Num(k) == k * Scale

IsInteger(v) == v % Scale = 0

\* ToInt32 of a number of magnitude below 2^31: truncation toward zero
ToInt32(v) == IF v >= 0 THEN v \div Scale ELSE -((-v) \div Scale)

RECURSIVE BitAnd(_, _)
BitAnd(p, q) ==
    IF p = 0 \/ q = 0 THEN 0
    ELSE (p % 2) * (q % 2) + 2 * BitAnd(p \div 2, q \div 2)

RECURSIVE BitOr(_, _)
BitOr(p, q) ==
    IF p = 0 THEN q
    ELSE IF q = 0 THEN p
    ELSE (IF p % 2 = 1 \/ q % 2 = 1 THEN 1 ELSE 0) + 2 * BitOr(p \div 2, q \div 2)

RECURSIVE BitXor(_, _)
BitXor(p, q) ==
    IF p = 0 THEN q
    ELSE IF q = 0 THEN p
    ELSE ((p + q) % 2) + 2 * BitXor(p \div 2, q \div 2)

----------------------------------------------------------------------------
(* display.ts constants *)

NUM_TILES_WIDTH == 64
NUM_TILES_HEIGHT == 32

----------------------------------------------------------------------------
(* ram.ts is not among the sources: memory is modelled from the            *)
(* specification (4096 bytes, the font table at 0, the image at 0x200).    *)

ROM_START == 512

MEMORY_SIZE == 4096

FontTable ==
    << 240, 144, 144, 144, 240,   32,  96,  32,  32, 112,
       240,  16, 240, 128, 240,  240,  16, 240,  16, 240,
       144, 144, 240,  16,  16,  240, 128, 240,  16, 240,
       240, 128, 240, 144, 240,  240,  16,  32,  64,  64,
       240, 144, 240, 144, 240,  240, 144, 240,  16, 240,
       240, 144, 240, 144, 144,  224, 144, 224, 144, 224,
       240, 128, 128, 128, 240,  224, 144, 144, 144, 224,
       240, 128, 240, 128, 240,  240, 128, 240, 128, 128 >>

\* memoryMap[addr] for an integer index 0 <= addr < MEMORY_SIZE, image img loaded
memoryMap(img, addr) ==
    IF addr < Len(FontTable) THEN FontTable[addr + 1]
    ELSE IF addr >= ROM_START /\ addr < ROM_START + Len(img) THEN img[addr - ROM_START + 1]
    ELSE 0

\* memoryMap[v] used as an operand of << or |: a key that is no index of the
\* array reads undefined, which both operators take as 0
memoryOperand(img, v) ==
    IF IsInteger(v) /\ v >= 0 /\ v < Num(MEMORY_SIZE) THEN memoryMap(img, v \div Scale)
    ELSE 0

\* memoryMap.slice(from, to): the indices are truncated and clipped to the array
memorySlice(img, from, to) ==
    LET lo == IF ToInt32(from) > MEMORY_SIZE THEN MEMORY_SIZE ELSE ToInt32(from)
        hi == IF ToInt32(to) > MEMORY_SIZE THEN MEMORY_SIZE ELSE ToInt32(to)
    IN  [k \in 1..(IF hi > lo THEN hi - lo ELSE 0) |-> memoryMap(img, lo + k - 1)]

----------------------------------------------------------------------------
(* registers.ts *)

RegNames == << "v0", "v1", "v2", "v3", "v4", "v5", "v6", "v7",
               "v8", "v9", "vA", "vB", "vC", "vD", "vE", "vF" >>

VNames == { RegNames[k] : k \in 1..16 }

AllRegisters == VNames \cup {"addressIndex", "delayTimer", "soundTimer", "programCounter"}

\* the object literal _registers
InitialRegisters ==
    [r \in AllRegisters |-> IF r = "programCounter" THEN Num(ROM_START) ELSE 0]

\* wrap(value, max) inside the Proxy's set trap
wrap(value, max) ==
    IF value < 0 THEN Num(max) - ((-value) % Num(max))
    ELSE value % Num(max)

\* the Proxy's set trap: registers[prop] = value
set(obj, prop, value) ==
    IF prop \in VNames \/ prop = "delayTimer" \/ prop = "soundTimer"
    THEN [obj EXCEPT ![prop] = wrap(value, 256)]
    ELSE IF prop = "addressIndex" \/ prop = "programCounter"
    THEN [obj EXCEPT ![prop] = wrap(value, 65536)]
    ELSE obj

reg(which) == RegNames[which + 1]

nnn(c, b, a) == c * 256 + b * 16 + a

kk(b, a) == b * 16 + a

\* resetRegisters: every register to 0 through the Proxy, then the program
\* counter, then a fresh empty stack
resetRegisters ==
    LET zeroed == [r \in AllRegisters |->
                     wrap(0, IF r \in {"addressIndex", "programCounter"} THEN 65536 ELSE 256)]
    IN  [registers |-> set(zeroed, "programCounter", Num(ROM_START)), stack |-> <<>>]

----------------------------------------------------------------------------
(* display.ts *)

\* a variant of toggleTile that turns the tile on and never off
toggleTileSetsOnly(x, y, ds) ==
    LET pos == y * NUM_TILES_WIDTH + x
    IN  [displayState |-> ds \cup {pos}, erased |-> pos \in ds]

\* a variant of toggleTile that returns the new value of the tile
toggleTileReturnsNewValue(x, y, ds) ==
    LET pos == y * NUM_TILES_WIDTH + x
        on == pos \in ds
    IN  [displayState |-> IF on THEN ds \ {pos} ELSE ds \cup {pos}, erased |-> ~on]

\* toggleTile(x, y) on display state ds: no reduction of x or y is made
toggleTile(x, y, ds) ==
    LET pos == y * NUM_TILES_WIDTH + x
        on == pos \in ds
    IN  [displayState |-> IF on THEN ds \ {pos} ELSE ds \cup {pos}, erased |-> on]

\* the keys of a state array that are indices (fill and forEach visit only these)
Indices(ds) == { p \in ds : IsInteger(p) /\ p >= 0 }

\* the indices that draw() paints inside the canvas
InCanvas(p) == IsInteger(p) /\ p >= 0 /\ p < Num(NUM_TILES_WIDTH * NUM_TILES_HEIGHT)

\* draw(): repaint every tile that differs from oldState and record it there
draw(ds, old, cv) ==
    LET changed == (Indices(ds) \ old) \cup (old \ Indices(ds))
        painted == { p \in changed : InCanvas(p) }
    IN  [oldState |-> Indices(ds),
         canvas |-> (cv \ painted) \cup (painted \cap ds)]

\* clearState(): fill(false) on both arrays; keys that are not indices stay
clearState(ds) == [displayState |-> ds \ Indices(ds), oldState |-> {}]

\* clearDisplay(): the whole canvas is painted white; displayState is untouched
clearDisplay(cv) == {}

----------------------------------------------------------------------------
(* intructions.ts: the handlers.  n is the record of nibbles, m the machine *)
(* state the handlers read and write: registers, stack, displayState,      *)
(* canvas and the loaded image.                                            *)

V(m, which) == m.registers[reg(which)]

setReg(m, prop, value) == [m EXCEPT !.registers = set(m.registers, prop, value)]

_sys(n, m) == m

cls(n, m) == [m EXCEPT !.canvas = clearDisplay(m.canvas)]

\* stack.pop() of an empty stack is undefined; undefined and 0 are both falsy
ret(n, m) ==
    IF Len(m.stack) = 0 THEN m
    ELSE LET returnAddr == m.stack[Len(m.stack)]
             popped == [m EXCEPT !.stack = SubSeq(m.stack, 1, Len(m.stack) - 1)]
         IN  IF returnAddr # 0 THEN setReg(popped, "programCounter", returnAddr)
             ELSE popped

jpAddr(n, m) == setReg(m, "programCounter", Num(nnn(n.c, n.b, n.a)))

call(n, m) ==
    setReg([m EXCEPT !.stack = Append(m.stack, m.registers.programCounter)],
           "programCounter", Num(nnn(n.c, n.b, n.a)))

\* a variant of seByte that skips when Vx differs from kk
seByteSkipsOnDifference(n, m) ==
    IF V(m, n.c) # Num(kk(n.b, n.a))
    THEN setReg(m, "programCounter", m.registers.programCounter + Num(2))
    ELSE m

seByte(n, m) ==
    IF V(m, n.c) = Num(kk(n.b, n.a))
    THEN setReg(m, "programCounter", m.registers.programCounter + Num(2))
    ELSE m

sneByte(n, m) ==
    IF V(m, n.c) # Num(kk(n.b, n.a))
    THEN setReg(m, "programCounter", m.registers.programCounter + Num(2))
    ELSE m

seReg(n, m) ==
    IF V(m, n.c) = V(m, n.b)
    THEN setReg(m, "programCounter", m.registers.programCounter + Num(2))
    ELSE m

\* a variant of ldByte that adds kk to Vx instead of storing it
ldByteAdds(n, m) == setReg(m, reg(n.c), V(m, n.c) + Num(kk(n.b, n.a)))

ldByte(n, m) == setReg(m, reg(n.c), Num(kk(n.b, n.a)))

\* a variant of addByte that also writes the carry to VF
addByteSetsCarry(n, m) ==
    LET sum == V(m, n.c) + Num(kk(n.b, n.a))
    IN  setReg(setReg(m, "vF", IF sum > Num(255) THEN Num(1) ELSE Num(0)), reg(n.c), sum)

addByte(n, m) == setReg(m, reg(n.c), V(m, n.c) + Num(kk(n.b, n.a)))

ldVx(n, m) == setReg(m, reg(n.c), V(m, n.b))

or(n, m) == setReg(m, reg(n.c), Num(BitOr(ToInt32(V(m, n.c)), ToInt32(V(m, n.b)))))

and(n, m) == setReg(m, reg(n.c), Num(BitAnd(ToInt32(V(m, n.c)), ToInt32(V(m, n.b)))))

xor(n, m) == setReg(m, reg(n.c), Num(BitXor(ToInt32(V(m, n.c)), ToInt32(V(m, n.b)))))

\* a variant of addReg whose carry test is off by one
addRegCarryOffByOne(n, m) ==
    LET sum == V(m, n.c) + V(m, n.b)
        m1 == setReg(m, "vF", IF sum > Num(256) THEN Num(1) ELSE Num(0))
    IN  setReg(m1, reg(n.c), Num(BitAnd(ToInt32(sum), 255)))

addReg(n, m) ==
    LET sum == V(m, n.c) + V(m, n.b)
        m1 == setReg(m, "vF", IF sum > Num(255) THEN Num(1) ELSE Num(0))
    IN  setReg(m1, reg(n.c), Num(BitAnd(ToInt32(sum), 255)))

\* a variant of sub that sets the flag when the operands are equal
subFlagOnEqual(n, m) ==
    LET difference == V(m, n.c) - V(m, n.b)
        m1 == setReg(m, "vF", IF difference >= 0 THEN Num(1) ELSE Num(0))
    IN  setReg(m1, reg(n.c), difference)

sub(n, m) ==
    LET difference == V(m, n.c) - V(m, n.b)
        m1 == setReg(m, "vF", IF difference > 0 THEN Num(1) ELSE Num(0))
    IN  setReg(m1, reg(n.c), difference)

\* registers[reg(c)] /= 2 reads the register after the flag is written
shr(n, m) ==
    LET m1 == setReg(m, "vF", IF BitAnd(ToInt32(V(m, n.c)), 1) = 1 THEN Num(1) ELSE Num(0))
    IN  setReg(m1, reg(n.c), V(m1, n.c) \div 2)

subn(n, m) ==
    LET difference == V(m, n.b) - V(m, n.c)
        m1 == setReg(m, "vF", IF difference > 0 THEN Num(1) ELSE Num(0))
    IN  setReg(m1, reg(n.c), difference)

\* (registers[reg(c)] & 0x80) === 1 compares the masked value, 0 or 128, with 1
shl(n, m) ==
    LET m1 == setReg(m, "vF", IF BitAnd(ToInt32(V(m, n.c)), 128) = 1 THEN Num(1) ELSE Num(0))
    IN  setReg(m1, reg(n.c), V(m1, n.c) * 2)

sneReg(n, m) ==
    IF V(m, n.c) # V(m, n.b)
    THEN setReg(m, "programCounter", m.registers.programCounter + Num(2))
    ELSE m

ldi(n, m) == setReg(m, "addressIndex", Num(nnn(n.c, n.b, n.a)))

jpv0Addr(n, m) == setReg(m, "programCounter", Num(nnn(n.c, n.b, n.a)) + m.registers.v0)

rnd(n, m) == m

\* bit i of a byte: (masks[i] & byte) >> i
bit(byte, i) == (byte \div (2 ^ i)) % 2

\* the inner loop of drw for one sprite row: bits i, i-1, .., 0 of byte
RECURSIVE drwBits(_, _, _, _, _, _)
drwBits(byte, index, i, x, y, m) ==
    IF i < 0 THEN m
    ELSE IF bit(byte, i) = 0 THEN drwBits(byte, index, i - 1, x, y, m)
    ELSE LET t == toggleTile(x + Num(7 - i), y + Num(index), m.displayState)
             m1 == [m EXCEPT !.displayState = t.displayState]
         IN  IF t.erased
             THEN drwBits(byte, index, i - 1, x, y, setReg(m1, "vF", Num(1)))
             ELSE drwBits(byte, index, i - 1, x, y, m1)

\* a variant of drwRows that clears VF before each row, so that the flag is
\* the collision of the last row alone
RECURSIVE drwRowsFlagPerRow(_, _, _, _, _)
drwRowsFlagPerRow(bytesToDraw, index, x, y, m) ==
    IF index >= Len(bytesToDraw) THEN m
    ELSE drwRowsFlagPerRow(bytesToDraw, index + 1, x, y,
                           drwBits(bytesToDraw[index + 1], index, 7, x, y,
                                   setReg(m, "vF", Num(0))))

\* bytesToDraw.forEach: rows index, index+1, .. of the sprite
RECURSIVE drwRows(_, _, _, _, _)
drwRows(bytesToDraw, index, x, y, m) ==
    IF index >= Len(bytesToDraw) THEN m
    ELSE drwRows(bytesToDraw, index + 1, x, y,
                 drwBits(bytesToDraw[index + 1], index, 7, x, y, m))

\* a variant of drw that clears VF before it reads Vx and Vy
drwFlagFirst(n, m) ==
    LET m0 == setReg(m, "vF", Num(0))
        x == V(m0, n.c)
        y == V(m0, n.b)
        bytesToDraw == memorySlice(m.rom, m.registers.addressIndex,
                                   m.registers.addressIndex + Num(n.a))
    IN  drwRows(bytesToDraw, 0, x, y, m0)

drw(n, m) ==
    LET x == V(m, n.c)
        y == V(m, n.b)
        bytesToDraw == memorySlice(m.rom, m.registers.addressIndex,
                                   m.registers.addressIndex + Num(n.a))
    IN  drwRows(bytesToDraw, 0, x, y, setReg(m, "vF", Num(0)))

\* the handlers with an empty body
skp(n, m) == m

sknp(n, m) == m

\* a variant of ldvxdt with the body its comment describes: Vx = DT
ldvxdtReadsTimer(n, m) == setReg(m, reg(n.c), m.registers.delayTimer)

ldvxdt(n, m) == m

ldkey(n, m) == m

lddtvx(n, m) == m

ldstvx(n, m) == m

addivx(n, m) == m

ldfont(n, m) == m

ldbcd(n, m) == m

lda(n, m) == m

ldb(n, m) == m

\* a variant of Nibbles that shifts the mask 0x00f0 by 0 and 0x000f by 4
NibblesUnshifted(opcode) ==
    [d |-> (opcode \div 4096) % 16, c |-> (opcode \div 256) % 16,
     b |-> ((opcode \div 16) % 16) * 16, a |-> (opcode % 16) \div 16]

\* the four nibbles of an opcode
Nibbles(opcode) ==
    [d |-> (opcode \div 4096) % 16, c |-> (opcode \div 256) % 16,
     b |-> (opcode \div 16) % 16, a |-> opcode % 16]

\* case 0xf of the switch: an if / else-if chain, then six independent ifs
caseF(n, m) ==
    LET m1 == IF n.b = 5 /\ n.a = 5 THEN lda(n, m)
              ELSE IF n.b = 6 /\ n.a = 5 THEN ldb(n, m)
              ELSE IF n.a = 5 THEN lddtvx(n, m)
              ELSE m
        m2 == IF n.a = 7 THEN ldvxdt(n, m1) ELSE m1
        m3 == IF n.a = 10 THEN ldkey(n, m2) ELSE m2
        m4 == IF n.a = 8 THEN ldstvx(n, m3) ELSE m3
        m5 == IF n.a = 14 THEN addivx(n, m4) ELSE m4
        m6 == IF n.a = 9 THEN ldfont(n, m5) ELSE m5
    IN  IF n.a = 3 THEN ldbcd(n, m6) ELSE m6

\* a variant of case 0x8 in which the last test is not on a: every a without
\* a handler of its own runs shl
case8ShlOnOther(n, m) ==
    CASE n.a = 0 -> ldVx(n, m)
      [] n.a = 1 -> or(n, m)
      [] n.a = 2 -> and(n, m)
      [] n.a = 3 -> xor(n, m)
      [] n.a = 4 -> addReg(n, m)
      [] n.a = 5 -> sub(n, m)
      [] n.a = 6 -> shr(n, m)
      [] n.a = 7 -> subn(n, m)
      [] OTHER -> shl(n, m)

\* case 0x8 of the switch: the ifs test distinct values of a
case8(n, m) ==
    CASE n.a = 0 -> ldVx(n, m)
      [] n.a = 1 -> or(n, m)
      [] n.a = 2 -> and(n, m)
      [] n.a = 3 -> xor(n, m)
      [] n.a = 4 -> addReg(n, m)
      [] n.a = 5 -> sub(n, m)
      [] n.a = 6 -> shr(n, m)
      [] n.a = 7 -> subn(n, m)
      [] n.a = 14 -> shl(n, m)
      [] OTHER -> m

\* executeInstruction(opcode): the new machine state and whether mainLoop is
\* to add 2 to the program counter
executeInstruction(opcode, m) ==
    LET n == Nibbles(opcode)
    IN  CASE n.d = 0 ->
               IF n.a = 0 THEN [m |-> cls(n, m), increment |-> TRUE]
               ELSE IF n.a = 14 THEN [m |-> ret(n, m), increment |-> FALSE]
               ELSE [m |-> m, increment |-> TRUE]
          [] n.d = 1 -> [m |-> jpAddr(n, m), increment |-> FALSE]
          [] n.d = 2 -> [m |-> call(n, m), increment |-> FALSE]
          [] n.d = 3 -> [m |-> seByte(n, m), increment |-> TRUE]
          [] n.d = 4 -> [m |-> sneByte(n, m), increment |-> TRUE]
          [] n.d = 5 -> [m |-> seReg(n, m), increment |-> TRUE]
          [] n.d = 6 -> [m |-> ldByte(n, m), increment |-> TRUE]
          [] n.d = 7 -> [m |-> addByte(n, m), increment |-> TRUE]
          [] n.d = 8 -> [m |-> case8(n, m), increment |-> TRUE]
          [] n.d = 9 -> [m |-> sneReg(n, m), increment |-> TRUE]
          [] n.d = 10 -> [m |-> ldi(n, m), increment |-> TRUE]
          [] n.d = 11 -> [m |-> jpv0Addr(n, m), increment |-> FALSE]
          [] n.d = 12 -> [m |-> rnd(n, m), increment |-> TRUE]
          [] n.d = 13 -> [m |-> drw(n, m), increment |-> TRUE]
          [] n.d = 14 ->
               IF n.a = 14 THEN [m |-> skp(n, m), increment |-> TRUE]
               ELSE IF n.a = 1 THEN [m |-> sknp(n, m), increment |-> TRUE]
               ELSE [m |-> m, increment |-> TRUE]
          [] OTHER -> [m |-> caseF(n, m), increment |-> TRUE]

\* The one handler that divides: the step is modelled when the quotient
\* needs no more than FracBits fraction digits
Representable(opcode, m) ==
    LET n == Nibbles(opcode)
    IN  (n.d = 8 /\ n.a = 6) =>
            (IF n.c = 15 THEN Num(BitAnd(ToInt32(V(m, n.c)), 1)) ELSE V(m, n.c)) % 2 = 0

----------------------------------------------------------------------------
(* io.ts *)

KeyIds == {"0", "1", "2", "3", "4", "5", "6", "7", "8", "9", "A", "B", "C", "D", "E", "F"}

\* the object literal keys: every Key is constructed with pressed = false
InitialKeys == [k \in KeyIds |-> FALSE]

pressKey(ks, id) == [ks EXCEPT ![id] = TRUE]

releaseKey(ks, id) == [ks EXCEPT ![id] = FALSE]

----------------------------------------------------------------------------
(* Notation for program images.  An image is written as its 16-bit words   *)
(* and loaded as big-endian bytes.                                         *)

Op(d, c, b, a) == d * 4096 + c * 256 + b * 16 + a

Bytes(words) ==
    [k \in 1..(2 * Len(words)) |->
        IF k % 2 = 1 THEN words[(k + 1) \div 2] \div 256 ELSE words[k \div 2] % 256]

LD(x, byte) == Op(6, x, 0, 0) + byte

LDI(addr) == Op(10, 0, 0, 0) + addr

CALL(addr) == Op(2, 0, 0, 0) + addr

JP(addr) == Op(1, 0, 0, 0) + addr

RET == Op(0, 0, 14, 14)

NOP == Op(0, 0, 0, 1)

\* 2200: the program whose instruction at 0x200 is CALL 0x200
CallSelfWords == << CALL(ROM_START) >>

\* the mainLoop calls modelled for an image: the self-calling program is
\* followed further, until its stack is deeper than 16
StepBound(img) == IF img = Bytes(CallSelfWords) THEN MaxCallSteps ELSE MaxSteps

----------------------------------------------------------------------------
(* main.ts *)

\* setInterval(cb, delay): a new active interval under an id no active one has
limitExecutionSpeed(t, cb) ==
    LET id == CHOOSE i \in 1..(Cardinality(DOMAIN t) + 1) : i \notin DOMAIN t
    IN  [id |-> id, timers |-> [j \in DOMAIN t \cup {id} |-> IF j = id THEN cb ELSE t[j]]]

\* clearInterval(id): clearInterval(undefined) does nothing
clearInterval(t, id) == [j \in DOMAIN t \ {id} |-> t[j]]

\* a variant of start() without the three tests: every call creates intervals
startUnguarded(s) ==
    LET r1 == limitExecutionSpeed(s.timers, "mainLoop")
        r2 == limitExecutionSpeed(r1.timers, "delayTimer")
        r3 == limitExecutionSpeed(r2.timers, "soundTimer")
    IN  [cpu |-> r1.id, dt |-> r2.id, st |-> r3.id, timers |-> r3.timers]

\* start() on the interval state s = [cpu, dt, st, timers]
start(s) ==
    LET a == IF s.cpu = 0
             THEN LET r == limitExecutionSpeed(s.timers, "mainLoop")
                  IN  [s EXCEPT !.cpu = r.id, !.timers = r.timers]
             ELSE s
        b == IF a.dt = 0
             THEN LET r == limitExecutionSpeed(a.timers, "delayTimer")
                  IN  [a EXCEPT !.dt = r.id, !.timers = r.timers]
             ELSE a
    IN  IF b.st = 0
        THEN LET r == limitExecutionSpeed(b.timers, "soundTimer")
             IN  [b EXCEPT !.st = r.id, !.timers = r.timers]
        ELSE b

\* the first six statements of stop()
stopIntervals(s) ==
    [cpu |-> 0, dt |-> 0, st |-> 0,
     timers |-> clearInterval(clearInterval(clearInterval(s.timers, s.cpu), s.dt), s.st)]

\* a variant of timerLoop without the test: it decrements a timer that is 0
timerLoopNoFloor(regs, timer) == set(regs, timer, regs[timer] - Num(1))

\* a variant of timerLoop that stops one short: it keeps a timer that is 1
timerLoopStopsAtOne(regs, timer) ==
    IF regs[timer] > Num(1) THEN set(regs, timer, regs[timer] - Num(1)) ELSE regs

\* the callback timerLoop(timer) returns
timerLoop(regs, timer) ==
    IF regs[timer] > 0 THEN set(regs, timer, regs[timer] - Num(1)) ELSE regs

\* a variant of fetch that takes the byte at PC as the low byte
fetchLittleEndian(img, regs) ==
    LET highByte == memoryOperand(img, regs.programCounter)
        lowByte == memoryOperand(img, regs.programCounter + Num(1))
    IN  lowByte * 256 + highByte

\* the opcode mainLoop fetches: (highByte << 8) | lowByte
fetch(img, regs) ==
    LET highByte == memoryOperand(img, regs.programCounter)
        lowByte == memoryOperand(img, regs.programCounter + Num(1))
    IN  highByte * 256 + lowByte

NoStep ==
    [opcode |-> -1, pc |-> 0, registers |-> InitialRegisters, displayState |-> {},
     stack |-> <<>>, site |-> -1, keys |-> InitialKeys, prop |-> "", value |-> 0]

IsCall(opcode) == Nibbles(opcode).d = 2

IsRet(opcode) == Nibbles(opcode).d = 0 /\ Nibbles(opcode).a = 14

\* mainLoop() on the machine s = [registers, stack, displayState, oldState,
\* canvas, rom]: fetch, execute, advance PC, draw
mainLoop(s) ==
    LET opcode == fetch(s.rom, s.registers)
        r == executeInstruction(opcode, [registers |-> s.registers, stack |-> s.stack,
                                         displayState |-> s.displayState,
                                         canvas |-> s.canvas, rom |-> s.rom])
        d == draw(r.m.displayState, s.oldState, r.m.canvas)
    IN  [registers |-> IF r.increment
                       THEN set(r.m.registers, "programCounter",
                                r.m.registers.programCounter + Num(2))
                       ELSE r.m.registers,
         stack |-> r.m.stack,
         displayState |-> r.m.displayState,
         oldState |-> d.oldState,
         canvas |-> d.canvas,
         rom |-> s.rom]

\* the machine the callbacks act on
Machine ==
    [registers |-> registers, stack |-> stack, displayState |-> displayState,
     oldState |-> oldState, canvas |-> canvas, rom |-> rom]

\* one call of mainLoop by the cpu interval
MainLoop ==
    /\ \E id \in DOMAIN timers : timers[id] = "mainLoop"
    /\ steps < StepBound(rom)
    /\ \E opcode \in {fetch(rom, registers)} :
         /\ Representable(opcode, Machine)
         /\ \E t \in {mainLoop(Machine)} :
              /\ registers' = t.registers
              /\ stack' = t.stack
              /\ displayState' = t.displayState
              /\ oldState' = t.oldState
              /\ canvas' = t.canvas
              /\ steps' = steps + 1
              /\ last' = [opcode |-> opcode, pc |-> registers.programCounter,
                          registers |-> registers, displayState |-> displayState,
                          stack |-> stack,
                          site |-> IF IsRet(opcode) /\ Len(callSites) > 0
                                   THEN callSites[Len(callSites)] ELSE -1,
                          keys |-> keys, prop |-> "", value |-> 0]
              /\ callSites' = IF IsCall(opcode)
                              THEN Append(callSites, registers.programCounter)
                              ELSE IF IsRet(opcode) /\ Len(callSites) > 0
                              THEN SubSeq(callSites, 1, Len(callSites) - 1)
                              ELSE callSites
    /\ UNCHANGED <<rom, keys, timers, cpu, dt, st, pending>>

\* one call of timerLoop("delayTimer") by the dt interval
DelayTimerTick ==
    /\ \E id \in DOMAIN timers : timers[id] = "delayTimer"
    /\ registers' = timerLoop(registers, "delayTimer")
    /\ UNCHANGED <<stack, displayState, oldState, canvas, rom, keys, timers,
                   cpu, dt, st, pending, steps, last, callSites>>

\* one call of timerLoop("soundTimer") by the st interval
SoundTimerTick ==
    /\ \E id \in DOMAIN timers : timers[id] = "soundTimer"
    /\ registers' = timerLoop(registers, "soundTimer")
    /\ UNCHANGED <<stack, displayState, oldState, canvas, rom, keys, timers,
                   cpu, dt, st, pending, steps, last, callSites>>

\* a click on the start button
Start ==
    /\ LET s == start([cpu |-> cpu, dt |-> dt, st |-> st, timers |-> timers])
       IN  /\ cpu' = s.cpu
           /\ dt' = s.dt
           /\ st' = s.st
           /\ timers' = s.timers
    /\ UNCHANGED <<registers, stack, displayState, oldState, canvas, rom, keys,
                   pending, steps, last, callSites>>

\* stop(): the effect on every variable but pending
stopEffect ==
    /\ LET s == stopIntervals([cpu |-> cpu, dt |-> dt, st |-> st, timers |-> timers])
       IN  /\ cpu' = s.cpu
           /\ dt' = s.dt
           /\ st' = s.st
           /\ timers' = s.timers
    /\ registers' = resetRegisters.registers
    /\ stack' = resetRegisters.stack
    /\ canvas' = clearDisplay(canvas)
    /\ displayState' = clearState(displayState).displayState
    /\ oldState' = clearState(displayState).oldState
    /\ steps' = 0
    /\ last' = NoStep
    /\ callSites' = <<>>
    /\ UNCHANGED <<rom, keys>>

\* a click on the stop button
Stop ==
    /\ stopEffect
    /\ UNCHANGED pending

\* the file input's change handler with a file chosen: stop(), then the read
\* of the file is started; loadRom runs when its promise resolves
InputChange(image) ==
    /\ Len(pending) < MaxPending
    /\ stopEffect
    /\ pending' = Append(pending, image)

\* a file read completes: loadRom(buffer) copies the image to ROM_START
LoadRom ==
    /\ \E i \in 1..Len(pending) :
         /\ rom' = pending[i]
         /\ pending' = SubSeq(pending, 1, i - 1) \o SubSeq(pending, i + 1, Len(pending))
    /\ UNCHANGED <<registers, stack, displayState, oldState, canvas, keys, timers,
                   cpu, dt, st, steps, last, callSites>>

\* registers[prop] = value made directly: the Proxy's set trap on its own
WriteRegister(prop, value) ==
    /\ registers' = set(registers, prop, Num(value))
    /\ last' = [NoStep EXCEPT !.registers = registers, !.prop = prop, !.value = value]
    /\ UNCHANGED <<stack, displayState, oldState, canvas, rom, keys, timers,
                   cpu, dt, st, pending, steps, callSites>>

\* mousedown / mouseup on a key button
PressKey(id) ==
    /\ keys' = pressKey(keys, id)
    /\ UNCHANGED <<registers, stack, displayState, oldState, canvas, rom, timers,
                   cpu, dt, st, pending, steps, last, callSites>>

ReleaseKey(id) ==
    /\ keys' = releaseKey(keys, id)
    /\ UNCHANGED <<registers, stack, displayState, oldState, canvas, rom, timers,
                   cpu, dt, st, pending, steps, last, callSites>>

----------------------------------------------------------------------------
(* Program images *)

\* 6005 600A 8014
ScenarioWords == << LD(0, 5), LD(0, 10), Op(8, 0, 1, 4) >>

ByteSamples == {0, 1, 2, 5, 10, 15, 100, 127, 128, 129, 200, 250, 255}

RegPairs == { <<0, 1>>, <<1, 0>>, <<1, 1>>, <<0, 15>>, <<15, 1>>, <<15, 15>> }

\* the low nibbles of family 8: the nine assigned ones and an unassigned one
AluOps == {0, 1, 2, 3, 4, 5, 6, 7, 14, 8}

\* LD Vx, p ; LD Vy, q ; 8xy<op>
AluWords(x, p, y, q, op) == << LD(x, p), LD(y, q), Op(8, x, y, op) >>

\* LD Vx, p ; SHR Vx ; LD Vy, q ; 8xy<op>: the operation meets a halved Vx
HalvedWords(x, p, y, q, op) == << LD(x, p), Op(8, x, 0, 6), LD(y, q), Op(8, x, y, op) >>

SpriteAddr == ROM_START + 16

XSamples == {0, 5, 57, 60, 63, 64, 200}

YSamples == {0, 30, 31, 32}

DrawRegPairs == { <<0, 1>>, <<1, 1>>, <<15, 1>>, <<1, 15>> }

\* LD Vx, p ; LD Vy, q ; LD I, sprite ; DRW Vx, Vy, n1 ; LD I, sprite + off ;
\* DRW Vx, Vy, n2 ; two unused words ; the sprite rows FF 81 00 18
DrawWords(x, p, y, q, n1, off, n2) ==
    << LD(x, p), LD(y, q), LDI(SpriteAddr), Op(13, x, y, n1),
       LDI(SpriteAddr + off), Op(13, x, y, n2), NOP, NOP,
       255 * 256 + 129, 24 >>

CallWords ==
    { << CALL(ROM_START + 4), NOP, RET >>,
      << CALL(ROM_START + 6), NOP, NOP, RET >>,
      << NOP, CALL(ROM_START + 6), NOP, RET >>,
      << CALL(ROM_START + 4), NOP, CALL(ROM_START + 8), NOP, RET >>,
      << CALL(ROM_START + 4), JP(ROM_START + 2), LD(0, 7), RET >>,
      << RET >>,
      CallSelfWords }

CLS == Op(0, 0, 14, 0)

\* CALL next ; LD Vx, p ; LD I, sprite ; DRW Vx, Vx, 2 ; CLS ; DRW Vx, Vx, 2 ;
\* two unused words ; the sprite rows FF 81
ClsWords(x, p) ==
    << CALL(ROM_START + 2), LD(x, p), LDI(SpriteAddr), Op(13, x, x, 2), CLS,
       Op(13, x, x, 2), NOP, NOP, 255 * 256 + 129 >>

\* LD Vx, p ; LD Vx, K ; SKP Vx ; SKNP Vx
KeyWords(x, p) == << LD(x, p), Op(15, x, 0, 10), Op(14, x, 9, 14), Op(14, x, 10, 1) >>

\* LD Vx, p ; 3xkk or 4xkk with kk = q
SkipByteWords(x, p, q, d) == << LD(x, p), Op(d, x, 0, 0) + q >>

\* LD V0, 1 ; SHR V0 ; 3xkk or 4xkk with kk = q: the skip meets a halved Vx
HalvedSkipWords(q, d) == << LD(0, 1), Op(8, 0, 0, 6), Op(d, 0, 0, 0) + q >>

\* LD Vx, p ; LD Vy, q ; 5xy0 or 9xy0
SkipRegWords(x, p, y, q, d) == << LD(x, p), LD(y, q), Op(d, x, y, 0) >>

\* LD V0, p ; SHR V0 or a no-op ; JP V0, addr
JumpV0Words(p, halve, addr) ==
    << LD(0, p), IF halve THEN Op(8, 0, 0, 6) ELSE NOP, Op(11, 0, 0, 0) + addr >>

JumpTargets == {0, ROM_START + 4, 4095}

\* the instructions whose handlers have an empty body, and SYS
StubWords ==
    { << Op(12, 0, 15, 15), Op(15, 0, 0, 7), Op(15, 0, 1, 5), Op(15, 0, 1, 8),
         Op(15, 0, 1, 14), Op(15, 0, 2, 9) >>,
      << LD(0, 123), Op(15, 0, 3, 3), Op(15, 0, 5, 5), Op(15, 0, 6, 5),
         Op(0, 1, 2, 3) >> }

\* LD VF, 1 ; LD Vx, p ; ADD Vx, q
AddByteWords(x, p, q) == << LD(15, 1), LD(x, p), Op(7, x, 0, 0) + q >>

\* opcodes that are none of the defined instructions: 001E with and without
\* a return address, 5xy1 and 9xy1 whose comparison succeeds, Exkk and Fxkk
\* with an unassigned kk
UndefinedWords ==
    { << CALL(ROM_START + 4), NOP, Op(0, 0, 1, 14) >>,
      << Op(0, 0, 1, 14) >>,
      << LD(0, 1), LD(1, 1), Op(5, 0, 1, 1) >>,
      << LD(0, 1), Op(9, 0, 1, 1) >>,
      << LD(0, 1), Op(14, 0, 15, 14), Op(14, 0, 1, 1), Op(14, 0, 0, 0) >>,
      << LD(0, 1), Op(15, 0, 15, 15), Op(15, 0, 15, 5), Op(15, 0, 0, 0), Op(15, 0, 7, 5) >> }

\* LD V0, p ; LD V1, q ; LD I, addr ; LD B, V0 ; LD [I], V1 ; LD V1, [I]
MemoryWords(p, q, addr) ==
    << LD(0, p), LD(1, q), LDI(addr), Op(15, 0, 3, 3), Op(15, 1, 5, 5), Op(15, 1, 6, 5) >>

\* LD Vx, p ; LD F, Vx ; LD DT, Vx ; LD Vy, DT ; LD ST, Vx
FontTimerWords(x, p, y) ==
    << LD(x, p), Op(15, x, 2, 9), Op(15, x, 1, 5), Op(15, y, 0, 7), Op(15, x, 1, 8) >>

\* LD V0, 1 ; SHR V0 ; LD I, sprite ; DRW V0, V1, 1 ; the sprite row 80
HalvedDrawWords ==
    << LD(0, 1), Op(8, 0, 0, 6), LDI(ROM_START + 8), Op(13, 0, 1, 1), 128 * 256 >>

\* LD Vx, p ; RND Vx, q
RndWords(x, p, q) == << LD(x, p), Op(12, x, 0, 0) + q >>

\* the low nibbles of family 8 without a handler, besides the 8 of AluOps
UnassignedAluOps == {9, 10, 11, 12, 13, 15}

RunImages ==
    { Bytes(ScenarioWords) }
    \cup { Bytes(w) : w \in CallWords }
    \cup { Bytes(AluWords(rp[1], p, rp[2], q, op)) :
             rp \in RegPairs, p \in ByteSamples, q \in ByteSamples, op \in AluOps }
    \cup { Bytes(HalvedWords(rp[1], p, rp[2], q, op)) :
             rp \in {<<0, 1>>, <<0, 15>>}, p \in {1, 5, 255}, q \in {0, 1, 255}, op \in AluOps }
    \cup { Bytes(DrawWords(rp[1], p, rp[2], q, n1, off, n2)) :
             rp \in DrawRegPairs, p \in XSamples, q \in YSamples,
             n1 \in 0..3, off \in 0..1, n2 \in 1..2 }
    \cup { Bytes(ClsWords(0, p)) : p \in {0, 5, 60} }
    \cup { Bytes(KeyWords(xp[1], xp[2])) : xp \in { <<0, 0>>, <<1, 10>>, <<2, 16>> } }
    \cup { Bytes(SkipByteWords(x, p, q, d)) :
             x \in {0, 7, 15}, p \in ByteSamples, q \in ByteSamples, d \in {3, 4} }
    \cup { Bytes(HalvedSkipWords(q, d)) : q \in {0, 1}, d \in {3, 4} }
    \cup { Bytes(SkipRegWords(rp[1], p, rp[2], q, d)) :
             rp \in RegPairs, p \in {0, 1, 255}, q \in {0, 1, 255}, d \in {5, 9} }
    \cup { Bytes(JumpV0Words(p, halve, addr)) :
             p \in {0, 1, 5, 255}, halve \in BOOLEAN, addr \in JumpTargets }
    \cup { Bytes(<< JP(addr) >>) : addr \in JumpTargets }
    \cup { Bytes(w) : w \in StubWords }
    \cup { Bytes(AddByteWords(x, p, q)) :
             x \in {0, 7, 15}, p \in ByteSamples, q \in ByteSamples }
    \cup { Bytes(w) : w \in UndefinedWords }
    \cup { Bytes(MemoryWords(p, q, addr)) :
             p \in {0, 7, 123, 255}, q \in {0, 45}, addr \in {0, ROM_START, ROM_START + 16} }
    \cup { Bytes(FontTimerWords(xy[1], p, xy[2])) :
             xy \in { <<0, 1>>, <<1, 1>>, <<15, 0>> }, p \in {0, 3, 7, 15, 200} }
    \cup { Bytes(HalvedDrawWords) }
    \cup { Bytes(RndWords(x, p, q)) : x \in {0, 15}, p \in {0, 5, 255}, q \in {0, 15, 255} }
    \cup { Bytes(AluWords(rp[1], p, rp[2], q, op)) :
             rp \in RegPairs, p \in {0, 1, 255}, q \in {0, 1, 255}, op \in UnassignedAluOps }

\* the images offered to the file input of the driver
Images ==
    { Bytes(ScenarioWords),
      Bytes(<< CALL(ROM_START + 4), NOP, RET >>),
      Bytes(DrawWords(0, 60, 1, 31, 1, 0, 2)),
      Bytes(KeyWords(0, 10)) }

PressableKeys == {"0", "A"}

----------------------------------------------------------------------------
(* The driver: the page after DOMContentLoaded, with its event handlers    *)
(* and interval callbacks.                                                 *)

Init ==
    /\ registers = InitialRegisters
    /\ stack = <<>>
    /\ displayState = {}
    /\ oldState = {}
    /\ canvas = {}
    /\ rom = <<>>
    /\ keys = InitialKeys
    /\ timers = <<>>
    /\ cpu = 0
    /\ dt = 0
    /\ st = 0
    /\ pending = <<>>
    /\ steps = 0
    /\ last = NoStep
    /\ callSites = <<>>

Next ==
    \/ Start
    \/ Stop
    \/ \E image \in Images : InputChange(image)
    \/ LoadRom
    \/ MainLoop
    \/ DelayTimerTick
    \/ SoundTimerTick
    \/ \E id \in PressableKeys : PressKey(id)
    \/ \E id \in PressableKeys : ReleaseKey(id)

Spec == Init /\ [][Next]_vars

----------------------------------------------------------------------------
(* A run of one program: the state after a file was chosen (stop()), its   *)
(* image was loaded and start() was called; then only the interval         *)
(* callbacks act.                                                          *)

InitRun ==
    /\ rom \in RunImages
    /\ registers = resetRegisters.registers
    /\ stack = resetRegisters.stack
    /\ displayState = {}
    /\ oldState = {}
    /\ canvas = {}
    /\ keys = InitialKeys
    /\ LET s == start([cpu |-> 0, dt |-> 0, st |-> 0, timers |-> <<>>])
       IN  /\ cpu = s.cpu
           /\ dt = s.dt
           /\ st = s.st
           /\ timers = s.timers
    /\ pending = <<>>
    /\ steps = 0
    /\ last = NoStep
    /\ callSites = <<>>

NextRun ==
    \/ MainLoop
    \/ DelayTimerTick
    \/ SoundTimerTick

SpecRun == InitRun /\ [][NextRun]_vars

----------------------------------------------------------------------------
(* Runs and resets of one program: the image stays loaded while the start  *)
(* and stop buttons are clicked and the interval callbacks act.            *)

ResetImages ==
    { Bytes(ScenarioWords), Bytes(HalvedDrawWords) }
    \cup { Bytes(w) : w \in CallWords }
    \cup { Bytes(DrawWords(0, p, 1, q, 1, 0, 2)) : p \in {0, 5, 60}, q \in {0, 30, 31} }

InitReset ==
    /\ rom \in ResetImages
    /\ registers = resetRegisters.registers
    /\ stack = resetRegisters.stack
    /\ displayState = {}
    /\ oldState = {}
    /\ canvas = {}
    /\ keys = InitialKeys
    /\ LET s == start([cpu |-> 0, dt |-> 0, st |-> 0, timers |-> <<>>])
       IN  /\ cpu = s.cpu
           /\ dt = s.dt
           /\ st = s.st
           /\ timers = s.timers
    /\ pending = <<>>
    /\ steps = 0
    /\ last = NoStep
    /\ callSites = <<>>

NextReset ==
    \/ MainLoop
    \/ DelayTimerTick
    \/ SoundTimerTick
    \/ Stop
    \/ Start

SpecReset == InitReset /\ [][NextReset]_vars

----------------------------------------------------------------------------
(* Every opcode: a run of each one-instruction program.                    *)

DecodeImages == { Bytes(<< opcode >>) : opcode \in 0..65535 }

InitDecode ==
    /\ rom \in DecodeImages
    /\ registers = resetRegisters.registers
    /\ stack = resetRegisters.stack
    /\ displayState = {}
    /\ oldState = {}
    /\ canvas = {}
    /\ keys = InitialKeys
    /\ LET s == start([cpu |-> 0, dt |-> 0, st |-> 0, timers |-> <<>>])
       IN  /\ cpu = s.cpu
           /\ dt = s.dt
           /\ st = s.st
           /\ timers = s.timers
    /\ pending = <<>>
    /\ steps = 0
    /\ last = NoStep
    /\ callSites = <<>>

SpecDecode == InitDecode /\ [][NextRun]_vars

----------------------------------------------------------------------------
(* The register file on its own: values written to it directly through the *)
(* Proxy, from the state after construction.                               *)

WriteProps == {"v0", "delayTimer", "addressIndex", "programCounter"}

WriteSamples == {-65536, -257, -256, -1, 0, 1, 255, 256, 65535, 65536, 65537}

NextWrite == \E prop \in WriteProps : \E value \in WriteSamples : WriteRegister(prop, value)

SpecWrite == Init /\ [][NextWrite]_vars

----------------------------------------------------------------------------
(* The timer callbacks on their own: the intervals are started with the    *)
(* two timers holding drawn values, and only the 60Hz callbacks act.       *)

\* ticks of one timer followed from a state by the floor law
MaxTicks == 3

TimerStarts == {0, 255}

InitTimer ==
    /\ rom = <<>>
    /\ \E v \in TimerStarts : \E w \in TimerStarts :
         registers = set(set(resetRegisters.registers, "delayTimer", Num(v)),
                         "soundTimer", Num(w))
    /\ stack = resetRegisters.stack
    /\ displayState = {}
    /\ oldState = {}
    /\ canvas = {}
    /\ keys = InitialKeys
    /\ LET s == start([cpu |-> 0, dt |-> 0, st |-> 0, timers |-> <<>>])
       IN  /\ cpu = s.cpu
           /\ dt = s.dt
           /\ st = s.st
           /\ timers = s.timers
    /\ pending = <<>>
    /\ steps = 0
    /\ last = NoStep
    /\ callSites = <<>>

NextTimer ==
    \/ DelayTimerTick
    \/ SoundTimerTick

SpecTimer == InitTimer /\ [][NextTimer]_vars

\* setInterval keeps calling each callback every 1/60 s until clearInterval,
\* which no action of this specification calls: a tick that would change
\* the state is not postponed forever.
SpecTimerFair ==
    SpecTimer /\ WF_vars(DelayTimerTick) /\ WF_vars(SoundTimerTick)

----------------------------------------------------------------------------
(* Steps among ticks: a run of one program started with the two timers     *)
(* holding drawn values; the step and the two ticks interleave.            *)

TickStarts == {0, 2}

\* programs of every family of instructions
TickImages ==
    { Bytes(ScenarioWords), Bytes(HalvedDrawWords) }
    \cup { Bytes(w) : w \in CallWords \cup StubWords \cup UndefinedWords }
    \cup { Bytes(AluWords(rp[1], 255, rp[2], 1, op)) :
             rp \in {<<0, 1>>, <<15, 1>>}, op \in AluOps \cup UnassignedAluOps }
    \cup { Bytes(DrawWords(rp[1], 60, rp[2], 31, 2, 0, 2)) : rp \in DrawRegPairs }
    \cup { Bytes(ClsWords(0, 5)), Bytes(KeyWords(0, 10)), Bytes(RndWords(0, 5, 15)),
           Bytes(AddByteWords(0, 255, 1)), Bytes(MemoryWords(123, 45, ROM_START)) }
    \cup { Bytes(SkipByteWords(0, 5, q, d)) : q \in {5, 10}, d \in {3, 4} }
    \cup { Bytes(SkipRegWords(0, 1, 1, q, d)) : q \in {0, 1}, d \in {5, 9} }
    \cup { Bytes(JumpV0Words(5, FALSE, addr)) : addr \in JumpTargets }
    \cup { Bytes(FontTimerWords(xy[1], p, xy[2])) :
             xy \in { <<0, 1>>, <<1, 1>>, <<15, 0>> }, p \in {0, 3, 200} }

InitTicks ==
    /\ rom \in TickImages
    /\ \E v \in TickStarts : \E w \in TickStarts :
         registers = set(set(resetRegisters.registers, "delayTimer", Num(v)),
                         "soundTimer", Num(w))
    /\ stack = resetRegisters.stack
    /\ displayState = {}
    /\ oldState = {}
    /\ canvas = {}
    /\ keys = InitialKeys
    /\ LET s == start([cpu |-> 0, dt |-> 0, st |-> 0, timers |-> <<>>])
       IN  /\ cpu = s.cpu
           /\ dt = s.dt
           /\ st = s.st
           /\ timers = s.timers
    /\ pending = <<>>
    /\ steps = 0
    /\ last = NoStep
    /\ callSites = <<>>

SpecTicks == InitTicks /\ [][NextRun]_vars

----------------------------------------------------------------------------
(* Vocabulary of the properties: the last step and its pre-state           *)

Stepped == last.opcode >= 0

LastN == Nibbles(last.opcode)

\* the last step executed an opcode of family d
LastFamily(d) == Stepped /\ LastN.d = d

\* the last step executed 8xy<op>
LastAlu(op) == LastFamily(8) /\ LastN.a = op

\* Vx and Vy of the last step's opcode, before and after the step
PreVx == last.registers[reg(LastN.c)]

PreVy == last.registers[reg(LastN.b)]

PostVx == registers[reg(LastN.c)]

\* an integer in 0..255
IsByte(v) == IsInteger(v) /\ v >= 0 /\ v < Num(256)

Flag(cond) == IF cond THEN Num(1) ELSE Num(0)

----------------------------------------------------------------------------
(* C1 *)

\* C1 (as claimed): when a RET executes that matches a CALL executed at address
\* p, the program counter after it is p + 2
C1_RetResumesAfterCall ==
    (Stepped /\ IsRet(last.opcode) /\ last.site >= 0)
        => registers.programCounter = (last.site + Num(2)) % Num(65536)

----------------------------------------------------------------------------
(* C2 *)

ScenarioDone == rom = Bytes(ScenarioWords) /\ steps = 3

\* C2 (as claimed): from the reset state with 60 05 60 0A 80 14 at 0x200, after
\* exactly three steps V0 = 15, VF = 0 and PC = 0x206
C2_ScenarioAsClaimed ==
    ScenarioDone
        => /\ registers.v0 = Num(15)
           /\ registers.vF = Num(0)
           /\ registers.programCounter = Num(ROM_START + 6)

\* C2 (amended): from the reset state with 60 05 60 0A 80 14 at 0x200, after
\* exactly three steps V0 = 10 (600A loads V0, and V1 stays 0), VF = 0 and
\* PC = 0x206
C2_ScenarioAmended ==
    ScenarioDone
        => /\ registers.v0 = Num(10)
           /\ registers.v1 = Num(0)
           /\ registers.vF = Num(0)
           /\ registers.programCounter = Num(ROM_START + 6)

\* C2 witness: the scenario's third step has been made
C2_Witness == ScenarioDone /\ LastAlu(4) /\ last.pc = Num(ROM_START + 4)

----------------------------------------------------------------------------
(* C3 *)

\* C3: after 8xy4 with x # F and Vx, Vy integers in 0..255, VF = 1 iff the
\* pre-state Vx + Vy > 255 (else 0) and Vx = (Vx + Vy) mod 256
C3_AddFlagLaw ==
    (LastAlu(4) /\ LastN.c # 15 /\ IsByte(PreVx) /\ IsByte(PreVy))
        => /\ registers.vF = Flag(PreVx + PreVy > Num(255))
           /\ PostVx = (PreVx + PreVy) % Num(256)

\* C3 witness: an 8xy4 with x # F whose sum is exactly 256 has been executed
C3_Witness ==
    /\ LastAlu(4) /\ LastN.c # 15 /\ IsByte(PreVx) /\ IsByte(PreVy)
    /\ PreVx + PreVy = Num(256)
    /\ registers.vF = Num(1)

----------------------------------------------------------------------------
(* C4 *)

\* the flag each flag-setting instruction defines, from the pre-state
DefinedFlag(op) ==
    CASE op = 4 -> Flag(PreVx + PreVy > Num(255))
      [] op = 5 -> Flag(PreVx > PreVy)
      [] op = 6 -> Flag(ToInt32(PreVx) % 2 = 1)
      [] op = 7 -> Flag(PreVy > PreVx)
      [] OTHER -> Flag(ToInt32(PreVx) >= 128)

\* C4 (as claimed): after 8xy4, 8xy5, 8xy6, 8xy7 or 8xyE with x = F, VF is the
\* flag the instruction defines, not the arithmetic result
C4_FlagWrittenLast ==
    (LastFamily(8) /\ LastN.a \in {4, 5, 6, 7, 14} /\ LastN.c = 15
       /\ IsByte(PreVx) /\ IsByte(PreVy))
        => registers.vF = DefinedFlag(LastN.a)

----------------------------------------------------------------------------
(* C5 *)

\* C5: after 8xy5 with x # F and integers in 0..255, VF = 1 iff the pre-state
\* Vx > Vy and Vx = (Vx - Vy) mod 256; after 8xy7, VF = 1 iff Vy > Vx and
\* Vx = (Vy - Vx) mod 256
C5_BorrowLaw ==
    /\ (LastAlu(5) /\ LastN.c # 15 /\ IsByte(PreVx) /\ IsByte(PreVy))
         => /\ registers.vF = Flag(PreVx > PreVy)
            /\ PostVx = (PreVx - PreVy) % Num(256)
    /\ (LastAlu(7) /\ LastN.c # 15 /\ IsByte(PreVx) /\ IsByte(PreVy))
         => /\ registers.vF = Flag(PreVy > PreVx)
            /\ PostVx = (PreVy - PreVx) % Num(256)

\* C5 witness: 8xy5 with Vx = 5, Vy = 10 has left Vx = 251 and VF = 0
C5_Witness ==
    /\ LastAlu(5) /\ LastN.c # 15
    /\ PreVx = Num(5) /\ PreVy = Num(10)
    /\ PostVx = Num(251) /\ registers.vF = Num(0)

----------------------------------------------------------------------------
(* C6 *)

\* C6 (as claimed): after 8xy6 with x # F and Vx an integer in 0..255, VF is
\* the least-significant bit of the pre-state Vx and Vx = floor(Vx / 2)
C6_ShrLaw ==
    (LastAlu(6) /\ LastN.c # 15 /\ IsByte(PreVx))
        => /\ registers.vF = Flag(ToInt32(PreVx) % 2 = 1)
           /\ PostVx = Num(ToInt32(PreVx) \div 2)

----------------------------------------------------------------------------
(* C7 *)

\* C7 (as claimed): after 8xyE with x # F and Vx an integer in 0..255, VF is
\* bit 7 of the pre-state Vx and Vx = (Vx * 2) mod 256
C7_ShlLaw ==
    (LastAlu(14) /\ LastN.c # 15 /\ IsByte(PreVx))
        => /\ registers.vF = Flag(ToInt32(PreVx) >= 128)
           /\ PostVx = (PreVx * 2) % Num(256)

----------------------------------------------------------------------------
(* C8, C9, C10: DRW *)

LastDrw == LastFamily(13)

\* row r of the sprite of the last DRW: the byte at address I + r, modulo the
\* memory size
SpriteRow(r) ==
    memoryMap(rom, (ToInt32(last.registers.addressIndex) + r) % MEMORY_SIZE)

\* the set bits of the sprite of the last DRW: <<row, column>> pairs
SpriteBits ==
    { rj \in (0..(LastN.a - 1)) \X (0..7) : bit(SpriteRow(rj[1]), 7 - rj[2]) = 1 }

\* the index in displayState of the cell (x mod 64, y mod 32)
Cell(x, y) == Num((y % NUM_TILES_HEIGHT) * NUM_TILES_WIDTH + (x % NUM_TILES_WIDTH))

\* the cells of the sprite's set bits when drawn at the pre-state (Vx, Vy)
SpriteCells ==
    { Cell(ToInt32(PreVx) + rj[2], ToInt32(PreVy) + rj[1]) : rj \in SpriteBits }

\* the cells the last step turned off, and those it turned on
Erased == last.displayState \ displayState

TurnedOn == displayState \ last.displayState

\* C8 (as claimed): a Dxyn of a sprite with a set bit on a blank display leaves
\* VF = 0 and exactly the cells of the sprite's set bits on; the same Dxyn on
\* the display so obtained leaves VF = 1 and the display blank
C8_DrwCollisionLaw ==
    (LastDrw /\ IsByte(PreVx) /\ IsByte(PreVy) /\ SpriteBits # {})
        => /\ last.displayState = {}
                => (registers.vF = Num(0) /\ displayState = SpriteCells)
           /\ last.displayState = SpriteCells
                => (registers.vF = Num(1) /\ displayState = {})

\* C9: after Dxyn, VF = 1 iff some cell was on before the draw and is off after
\* it, else VF = 0; and every set bit of all n rows has toggled one cell
C9_DrwFlagOverWholeSprite ==
    LastDrw
        => /\ registers.vF = Flag(Erased # {})
           /\ Cardinality(Erased \cup TurnedOn) = Cardinality(SpriteBits)

\* C9 witness: a two-row Dxyn has erased cells with its first row only and
\* turned cells on with its second row, and VF = 1
C9_Witness ==
    /\ LastDrw /\ LastN.a = 2
    /\ Erased # {} /\ TurnedOn # {}
    /\ \A e \in Erased : \A t \in TurnedOn : e < t
    /\ registers.vF = Num(1)

\* C10 (as claimed): a Dxyn toggles exactly the cells (x mod 64, y mod 32) of
\* its set bits, and no cell outside the 64x32 grid is ever set
C10_DisplayWraps ==
    (LastDrw /\ IsByte(PreVx) /\ IsByte(PreVy))
        => /\ Erased \cup TurnedOn = SpriteCells
           /\ \A p \in displayState : InCanvas(p)

----------------------------------------------------------------------------
(* Vocabulary of C11..C20 *)

\* the low byte kk of the last step's opcode, and its low 12 bits nnn
LastKK == last.opcode % 256

LastNNN == last.opcode % 4096

\* the program counter is the last step's address plus k, modulo 65536
AdvancedBy(k) == registers.programCounter = (last.pc + Num(k)) % Num(65536)

\* the last step changed no register outside the set S
RegistersKeptExcept(S) == \A r \in AllRegisters \ S : registers[r] = last.registers[r]

\* the declared width of a register: 2^8 or 2^16 values
Width(prop) == IF prop \in {"addressIndex", "programCounter"} THEN 65536 ELSE 256

KeyNames == << "0", "1", "2", "3", "4", "5", "6", "7",
               "8", "9", "A", "B", "C", "D", "E", "F" >>

KeyValue(id) == CHOOSE v \in 0..15 : KeyNames[v + 1] = id

NoKeyPressed(ks) == \A id \in KeyIds : ~ks[id]

\* the key whose value is v is pressed in the snapshot ks
KeyPressed(ks, v) ==
    IsInteger(v) /\ v >= 0 /\ v <= Num(15) /\ ks[KeyNames[(v \div Scale) + 1]]

----------------------------------------------------------------------------
(* C11 *)

LastCls == Stepped /\ last.opcode = CLS

\* the second DRW of a program CALL ; LD ; LD I ; DRW ; CLS ; DRW has run
DrwAfterCls ==
    /\ \E p \in {0, 5, 60} : rom = Bytes(ClsWords(0, p))
    /\ LastDrw /\ last.pc = Num(ROM_START + 10)

\* C11 (as claimed): after 00E0 every cell of the display state is off, PC has
\* advanced by 2 and no register or stack entry has changed; a DRW that follows
\* the CLS leaves VF = 0
C11_ClsClearsDisplayState ==
    /\ LastCls
         => /\ displayState = {}
            /\ AdvancedBy(2)
            /\ RegistersKeptExcept({"programCounter"})
            /\ stack = last.stack
    /\ DrwAfterCls => registers.vF = Num(0)

----------------------------------------------------------------------------
(* C12 *)

LastLdKey == LastFamily(15) /\ LastKK = 10

\* C12 (as claimed): a step on Fx0A with no key pressed leaves PC and all other
\* machine state unchanged; with a key pressed it sets Vx to the value of a
\* pressed key and advances PC by 2
C12_KeyWait ==
    LastLdKey
        => IF NoKeyPressed(last.keys)
           THEN /\ registers = last.registers
                /\ stack = last.stack
                /\ displayState = last.displayState
           ELSE /\ \E id \in KeyIds : last.keys[id] /\ PostVx = Num(KeyValue(id))
                /\ AdvancedBy(2)

----------------------------------------------------------------------------
(* C13 *)

LastSkp == LastFamily(14) /\ LastKK = 158

LastSknp == LastFamily(14) /\ LastKK = 161

\* C13 (as claimed): a step on Ex9E advances PC by 4 if the key whose value is
\* Vx is pressed and by 2 otherwise; a step on ExA1 advances PC by 4 if that
\* key is not pressed and by 2 otherwise
C13_KeySkips ==
    /\ LastSkp => AdvancedBy(IF KeyPressed(last.keys, PreVx) THEN 4 ELSE 2)
    /\ LastSknp => AdvancedBy(IF KeyPressed(last.keys, PreVx) THEN 2 ELSE 4)

----------------------------------------------------------------------------
(* C14 *)

\* the last step changed nothing but the program counter
OnlyPcChanged ==
    /\ RegistersKeptExcept({"programCounter"})
    /\ stack = last.stack
    /\ displayState = last.displayState

\* C14: a step on 3xkk advances PC by 4 when Vx = kk and by 2 otherwise, a step
\* on 4xkk advances PC by 4 when Vx # kk and by 2 otherwise, and neither
\* changes any other state
C14_SkipByteLaw ==
    /\ LastFamily(3)
         => (AdvancedBy(IF PreVx = Num(LastKK) THEN 4 ELSE 2) /\ OnlyPcChanged)
    /\ LastFamily(4)
         => (AdvancedBy(IF PreVx # Num(LastKK) THEN 4 ELSE 2) /\ OnlyPcChanged)

\* C14 witness: a 3xkk with Vx = kk = 200 has advanced PC by 4
C14_Witness ==
    /\ LastFamily(3) /\ PreVx = Num(200) /\ LastKK = 200
    /\ registers.programCounter = last.pc + Num(4)

----------------------------------------------------------------------------
(* C15 *)

\* the last step executed a skip instruction whose condition held
TakenSkip ==
    \/ LastFamily(3) /\ PreVx = Num(LastKK)
    \/ LastFamily(4) /\ PreVx # Num(LastKK)
    \/ LastFamily(5) /\ PreVx = PreVy
    \/ LastFamily(9) /\ PreVx # PreVy
    \/ LastSkp /\ KeyPressed(last.keys, PreVx)
    \/ LastSknp /\ ~KeyPressed(last.keys, PreVx)

\* C15 (as claimed): after 1nnn and 2nnn PC = nnn, after Bnnn
\* PC = (nnn + V0) mod 65536, and every other opcode but RET leaves PC at the
\* pre-state PC + 2, or + 4 for a taken skip, modulo 65536
C15_PcLaw ==
    Stepped
        => CASE LastN.d \in {1, 2} -> registers.programCounter = Num(LastNNN)
             [] LastN.d = 11 ->
                  registers.programCounter
                      = (Num(LastNNN) + last.registers.v0) % Num(65536)
             [] IsRet(last.opcode) -> TRUE
             [] OTHER -> AdvancedBy(IF TakenSkip THEN 4 ELSE 2)

----------------------------------------------------------------------------
(* C16 *)

Max(p, q) == IF p > q THEN p ELSE q

\* the registers after n calls of timerLoop(timer)'s callback
RECURSIVE ticked(_, _, _)
ticked(regs, timer, n) ==
    IF n = 0 THEN regs ELSE ticked(timerLoop(regs, timer), timer, n - 1)

\* C16: from a timer value v in 0..255, n consecutive ticks leave
\* max(0, v - n): a tick at 0 leaves 0, a tick at v > 0 leaves v - 1
C16_TimerFloorLaw ==
    \A timer \in {"delayTimer", "soundTimer"} :
        IsByte(registers[timer])
            => \A n \in 0..MaxTicks :
                 ticked(registers, timer, n)[timer] = Max(0, registers[timer] - Num(n))

\* C16 witness: ticks have brought DT from 255 to 1 and ST from 255 to 254
C16_Witness == registers.delayTimer = Num(1) /\ registers.soundTimer = Num(254)

----------------------------------------------------------------------------
(* C17 *)

LastWrite == last.prop # ""

\* C17 (as claimed): a write of an integer to V0..VF, DT or ST stores the
\* input mod 256, and a write to I or PC stores the input mod 65536
C17_WriteWrapLaw ==
    LastWrite => registers[last.prop] = Num(last.value % Width(last.prop))

----------------------------------------------------------------------------
(* C18 *)

\* C18 (as claimed): in every reachable state each of V0..VF, DT and ST holds
\* an integer in 0..255 and each of I and PC an integer in 0..65535
C18_RegistersInWidth ==
    \A r \in AllRegisters :
        IsInteger(registers[r]) /\ registers[r] >= 0 /\ registers[r] < Num(Width(r))

----------------------------------------------------------------------------
(* C19 *)

\* C19: after 7xkk with x # F and Vx an integer in 0..255, Vx = (Vx + kk) mod
\* 256, VF is unchanged and PC has advanced by 2
C19_AddByteLaw ==
    (LastFamily(7) /\ LastN.c # 15 /\ IsByte(PreVx))
        => /\ PostVx = (PreVx + Num(LastKK)) % Num(256)
           /\ registers.vF = last.registers.vF
           /\ AdvancedBy(2)

\* C19 witness: 7xkk with Vx = 250 and kk = 10 has left Vx = 4 and VF = 1
C19_Witness ==
    /\ LastFamily(7) /\ LastN.c # 15
    /\ PreVx = Num(250) /\ LastKK = 10
    /\ PostVx = Num(4) /\ last.registers.vF = Num(1) /\ registers.vF = Num(1)

----------------------------------------------------------------------------
(* C20 *)

\* the cpu interval is active: mainLoop will be called again
CpuRunning == \E id \in DOMAIN timers : timers[id] = "mainLoop"

\* C20 (as claimed): a RET executed on an empty call stack is surfaced: the
\* machine does not keep stepping after it
C20_UnderflowSurfaced ==
    (Stepped /\ IsRet(last.opcode) /\ last.stack = <<>>) => ~CpuRunning

----------------------------------------------------------------------------
(* Vocabulary of C21..C30 *)

\* the byte of memory at an integer address reduced modulo the memory size
MemAt(addr) == memoryMap(rom, addr % MEMORY_SIZE)

\* the pre-state I of the last step, when it is an integer
PreI == ToInt32(last.registers.addressIndex)

LastFx(byte) == LastFamily(15) /\ LastKK = byte

\* the opcode is one of the defined instructions
DefinedOpcode(opcode) ==
    LET n == Nibbles(opcode)
    IN  CASE n.d = 0 -> opcode \in {CLS, RET}
          [] n.d \in {5, 9} -> n.a = 0
          [] n.d = 8 -> n.a \in {0, 1, 2, 3, 4, 5, 6, 7, 14}
          [] n.d = 14 -> opcode % 256 \in {158, 161}
          [] n.d = 15 -> opcode % 256 \in {7, 10, 21, 24, 30, 41, 51, 85, 101}
          [] OTHER -> TRUE

----------------------------------------------------------------------------
(* C21 *)

\* C21 (as claimed): in every reachable state the call stack holds at most 16
\* return addresses
C21_StackBounded == Len(stack) <= 16

----------------------------------------------------------------------------
(* C22 *)

\* C22 (as claimed): a step on an opcode that is none of the defined
\* instructions changes nothing except PC, which advances by exactly 2
C22_UndefinedAreNoOps ==
    (Stepped /\ ~DefinedOpcode(last.opcode)) => (OnlyPcChanged /\ AdvancedBy(2))

----------------------------------------------------------------------------
(* C23 *)

\* C23 (as claimed): the two opcode bytes of a step are read at PC and PC + 1
\* modulo 4096, and a Dxyn processes the n rows at I .. I + n - 1 modulo 4096
C23_AddressesReduced ==
    /\ (Stepped /\ IsInteger(last.pc))
         => last.opcode = MemAt(ToInt32(last.pc)) * 256 + MemAt(ToInt32(last.pc) + 1)
    /\ (LastDrw /\ IsInteger(last.registers.addressIndex))
         => Cardinality(Erased \cup TurnedOn) = Cardinality(SpriteBits)

----------------------------------------------------------------------------
(* C24 *)

\* C24 (as claimed): after stop(), until a step is made, V0..VF, I, DT and ST
\* are 0, PC = 0x200, the stack is empty and the display state is that of a
\* freshly constructed machine: nothing in it is on
C24_ResetIsFresh ==
    steps = 0
        => /\ registers = InitialRegisters
           /\ stack = <<>>
           /\ displayState = {}

----------------------------------------------------------------------------
(* C25 *)

\* the program counter of the last step lies within memory, with its successor
PcInMemory ==
    IsInteger(last.pc) /\ last.pc >= 0 /\ last.pc + Num(1) < Num(MEMORY_SIZE)

\* C25: for a PC within memory, the opcode a step executes is
\* memory[PC] * 256 + memory[PC + 1]
C25_BigEndianFetch ==
    (Stepped /\ PcInMemory)
        => last.opcode = memoryMap(rom, ToInt32(last.pc)) * 256
                           + memoryMap(rom, ToInt32(last.pc) + 1)

\* C25 witness: the bytes 60 05 at 0x200 have been executed as 6005: V0 = 5
C25_Witness ==
    /\ Stepped /\ last.pc = Num(ROM_START)
    /\ rom[1] = 96 /\ rom[2] = 5
    /\ last.opcode = 96 * 256 + 5
    /\ registers.v0 = Num(5)

----------------------------------------------------------------------------
(* C26 *)

\* C26: the fields d, c, b, a of the executed opcode are each in 0..15 and
\* opcode = d*4096 + c*256 + b*16 + a; kk = b*16 + a is the opcode's low byte
\* and nnn = c*256 + b*16 + a its low 12 bits
C26_DecodingExact ==
    Stepped
        => LET n == Nibbles(last.opcode)
           IN  /\ n.d \in 0..15 /\ n.c \in 0..15 /\ n.b \in 0..15 /\ n.a \in 0..15
               /\ last.opcode = n.d * 4096 + n.c * 256 + n.b * 16 + n.a
               /\ kk(n.b, n.a) = last.opcode % 256
               /\ kk(n.b, n.a) \in 0..255
               /\ nnn(n.c, n.b, n.a) = last.opcode % 4096
               /\ nnn(n.c, n.b, n.a) \in 0..4095

\* C26 witness: 6A5C has been decoded as d = 6, c = A, kk = 5C: VA = 92
C26_Witness ==
    /\ Stepped /\ last.opcode = Op(6, 10, 5, 12)
    /\ registers.vA = Num(92)

----------------------------------------------------------------------------
(* C27 *)

\* C27 (as claimed): after Fx33 with Vx in 0..255, memory[I], memory[I+1] and
\* memory[I+2] are the hundreds, tens and ones digits of Vx, the registers are
\* unchanged and PC has advanced by 2
C27_LdBcd ==
    (LastFx(51) /\ IsByte(PreVx) /\ IsInteger(last.registers.addressIndex))
        => /\ MemAt(PreI) = ToInt32(PreVx) \div 100
           /\ MemAt(PreI + 1) = (ToInt32(PreVx) \div 10) % 10
           /\ MemAt(PreI + 2) = ToInt32(PreVx) % 10
           /\ RegistersKeptExcept({"programCounter"})
           /\ AdvancedBy(2)

----------------------------------------------------------------------------
(* C28 *)

\* C28 (as claimed): after Fx55, memory[I + i] = Vi for every i in 0..x and I
\* is unchanged; after Fx65, Vi = memory[I + i] for every i in 0..x and I is
\* unchanged
C28_BlockStoreLoad ==
    /\ (LastFx(85) /\ IsInteger(last.registers.addressIndex))
         => /\ \A i \in 0..LastN.c : Num(MemAt(PreI + i)) = last.registers[reg(i)]
            /\ registers.addressIndex = last.registers.addressIndex
    /\ (LastFx(101) /\ IsInteger(last.registers.addressIndex))
         => /\ \A i \in 0..LastN.c : registers[reg(i)] = Num(MemAt(PreI + i))
            /\ registers.addressIndex = last.registers.addressIndex

----------------------------------------------------------------------------
(* C29 *)

\* C29 (as claimed): after Fx29 with Vx in 0..15, I = 5 * Vx and PC has
\* advanced by 2
C29_LdFont ==
    (LastFx(41) /\ IsInteger(PreVx) /\ PreVx >= 0 /\ PreVx <= Num(15))
        => /\ registers.addressIndex = 5 * PreVx
           /\ AdvancedBy(2)

----------------------------------------------------------------------------
(* C30 *)

\* C30 (as claimed): after Fx15 the delay timer equals Vx, after Fx18 the sound
\* timer equals Vx, and after Fx07 Vx equals the delay timer
C30_TimerTransfer ==
    /\ (LastFx(21) /\ IsByte(PreVx)) => registers.delayTimer = PreVx
    /\ (LastFx(24) /\ IsByte(PreVx)) => registers.soundTimer = PreVx
    /\ LastFx(7) => PostVx = last.registers.delayTimer

----------------------------------------------------------------------------
(* RND *)

\* C31 (as claimed): after Cxkk, Vx is a byte with no bit set outside kk; in
\* particular Cx00 leaves Vx = 0.
C31_RndMasked ==
    LastFamily(12) =>
        /\ IsByte(PostVx)
        /\ BitAnd(ToInt32(PostVx), LastKK) = ToInt32(PostVx)
        /\ (LastKK = 0 => PostVx = 0)

----------------------------------------------------------------------------
(* Loading an image *)

\* C32 (as claimed): a file read completes, and loadRom writes memory, only
\* in a state where the CPU interval is inactive and the registers are in
\* the reset state, so that the first fetch from the new image finds them so.
C32_LoadOnlyWhileStopped ==
    [][Len(pending') < Len(pending) =>
           /\ ~CpuRunning
           /\ registers = resetRegisters.registers
           /\ stack = resetRegisters.stack]_vars

----------------------------------------------------------------------------
(* The intervals *)

\* the active intervals that call cb
Active(cb) == { id \in DOMAIN timers : timers[id] = cb }

\* C33: at most one interval of each kind is active, and the active ones are
\* those cpu, dt and st name; with cpu undefined (after stop()) no interval
\* is active, so that no step and no tick can act; and while the machine
\* stays running (start() clicked again among other events) the set of
\* intervals does not change.
C33_OneIntervalEach ==
    /\ [](/\ Active("mainLoop") = {cpu} \ {0}
          /\ Active("delayTimer") = {dt} \ {0}
          /\ Active("soundTimer") = {st} \ {0}
          /\ (cpu = 0 => DOMAIN timers = {}))
    /\ [][(cpu # 0 /\ cpu' # 0) => timers' = timers]_vars

\* C33 witness: the machine runs and has stepped after a file was chosen
\* (stop()) and start() was called again, the file still being read.
C33_Witness ==
    /\ steps > 0
    /\ pending # <<>>
    /\ Cardinality(Active("mainLoop")) = 1
    /\ Cardinality(DOMAIN timers) = 3

----------------------------------------------------------------------------
(* The timers over time *)

\* C34: no tick increases DT or ST, and while the two tick callbacks keep
\* being called each timer reaches 0 and stays 0 from then on.
C34_TimersDrain ==
    /\ [][/\ registers'.delayTimer <= registers.delayTimer
          /\ registers'.soundTimer <= registers.soundTimer]_vars
    /\ <>[](registers.delayTimer = 0)
    /\ <>[](registers.soundTimer = 0)

\* C34 witness: DT, started at 255, was ticked down to 0 while ST still
\* holds 1.
C34_Witness ==
    /\ registers.delayTimer = 0
    /\ registers.soundTimer = Num(1)

----------------------------------------------------------------------------
(* Ticks and steps *)

\* the machine s after one call of the callback of a timer
tick(s, timer) == [s EXCEPT !.registers = timerLoop(s.registers, timer)]

----------------------------------------------------------------------------
(* toggleTile on its own *)

\* the tiles of the grid: column x in 0..63 of row y in 0..31
GridTiles == (0..(NUM_TILES_WIDTH - 1)) \X (0..(NUM_TILES_HEIGHT - 1))

\* C36: from every display state and for every tile (x, y) of the grid,
\* toggleTile(x, y) changes the tile at index y * 64 + x and no other, and
\* returns true iff that tile was on; a second toggleTile(x, y) restores the
\* display state and returns the opposite (false then true from off).
C36_ToggleTileLaw ==
    \A xy \in GridTiles :
        LET pos == Num(xy[2] * NUM_TILES_WIDTH + xy[1])
            t1 == toggleTile(Num(xy[1]), Num(xy[2]), displayState)
            t2 == toggleTile(Num(xy[1]), Num(xy[2]), t1.displayState)
        IN  /\ (t1.displayState \ displayState) \cup (displayState \ t1.displayState) = {pos}
            /\ t1.erased = (pos \in displayState)
            /\ pos \in t1.displayState <=> pos \notin displayState
            /\ t2.displayState = displayState
            /\ t2.erased = ~t1.erased
            /\ pos \notin displayState => (~t1.erased /\ t2.erased)

\* C36 witness: a DRW inside the grid has called toggleTile on tiles that were
\* on and on tiles that were off, and tiles are on after it.
C36_Witness ==
    /\ LastDrw
    /\ Erased # {}
    /\ TurnedOn # {}
    /\ displayState # {}
    /\ \A p \in displayState \cup last.displayState : InCanvas(p)

----------------------------------------------------------------------------
(* DRW twice *)

\* C37: after a Dxyn that left Vx and Vy as they were (I and memory are
\* never changed by it), executing the same Dxyn once more gives back the
\* display state the first one started from, key by key.
C37_DrwInvolution ==
    (LastDrw /\ PostVx = PreVx /\ registers[reg(LastN.b)] = PreVy)
        => drw(LastN, Machine).displayState = last.displayState

\* C37 witness: a Dxyn with x and y other than F was executed on a display
\* with tiles on, erased some, turned others on and left tiles on.
C37_Witness ==
    /\ LastDrw /\ LastN.c # 15 /\ LastN.b # 15
    /\ last.displayState # {}
    /\ displayState # {}
    /\ Erased # {} /\ TurnedOn # {}
    /\ registers.vF = Num(1)

----------------------------------------------------------------------------
(* The frame of DRW *)

\* the indices toggleTile computes for the set bits of the sprite of the last
\* DRW from the pre-state Vx and Vy
PreStateIndices ==
    { (PreVy + Num(rj[1])) * NUM_TILES_WIDTH + PreVx + Num(rj[2]) : rj \in SpriteBits }

\* C38: a step on Dxyn advances PC by 2 and changes no other register but
\* VF, not the stack and not memory; the display entries it changes are
\* those computed from the values Vx and Vy held before the step, also when
\* x or y is F.
C38_DrwFrame ==
    /\ [](LastDrw =>
            /\ AdvancedBy(2)
            /\ RegistersKeptExcept({"vF", "programCounter"})
            /\ stack = last.stack
            /\ Erased \cup TurnedOn = PreStateIndices)
    /\ [][Nibbles(fetch(rom, registers)).d = 13 /\ steps' = steps + 1
             => rom' = rom]_vars

\* C38 witness: a Dxyn with x = F was executed with VF = 60 before it; it
\* has turned tiles on and left VF = 0.
C38_Witness ==
    /\ LastDrw /\ LastN.c = 15 /\ LastN.b # 15
    /\ PreVx = Num(60)
    /\ registers.vF = Num(0)
    /\ TurnedOn # {}

----------------------------------------------------------------------------
(* The call stack *)

\* the last step executed RET, the opcode 00EE
LastRet == Stepped /\ last.opcode = RET

\* the sequence without its last entry
Front(q) == SubSeq(q, 1, Len(q) - 1)

\* C39 (as claimed): a step on CALL adds one entry to the stack, a step on
\* RET with a non-empty stack removes the last entry and sets PC to it,
\* whatever its value, and a step on any other opcode leaves the stack as
\* it was; hence the depth is the number of CALLs minus the number of RETs
\* executed on a non-empty stack.
C39_StackDiscipline ==
    Stepped =>
        /\ IsCall(last.opcode) => Front(stack) = last.stack /\ Len(stack) = Len(last.stack) + 1
        /\ (LastRet /\ last.stack # <<>>) =>
              /\ stack = Front(last.stack)
              /\ registers.programCounter = last.stack[Len(last.stack)]
        /\ (~IsCall(last.opcode) /\ ~(LastRet /\ last.stack # <<>>)) => stack = last.stack

----------------------------------------------------------------------------
(* Family 8 without a handler *)

\* C40: a step on 8xyN with N one of 8, 9, A, B, C, D, F changes no register
\* but PC, which it advances by 2, and neither the stack nor the display;
\* memory is not written by any step.
C40_UnassignedAluNoOp ==
    /\ []((LastFamily(8) /\ LastN.a \in {8} \cup UnassignedAluOps)
            => (OnlyPcChanged /\ AdvancedBy(2)))
    /\ [][steps' = steps + 1 => rom' = rom]_vars

\* C40 witness: 8F1F was executed with VF = 255 and V1 = 1, and VF is
\* still 255.
C40_Witness ==
    /\ LastAlu(15) /\ LastN.c = 15 /\ LastN.b = 1
    /\ PreVx = Num(255) /\ PreVy = Num(1)
    /\ registers.vF = Num(255)

====
